---- MODULE Spec2Model ----
(***************************************************************************)
(* The novanector account backend: the Auth schema (authModel), the multer *)
(* upload configuration, and the account handlers of authController.js as  *)
(* they are mounted by the router.  Strings are TLA+ strings handled with  *)
(* Len, SubSeq and \o, so lowercasing, trimming and the regular            *)
(* expressions of the code are computed character by character.           *)
(***************************************************************************)
EXTENDS Integers, Sequences, FiniteSets, TLC

VARIABLES
    db,        \* the Auth collection: a set of documents
    nextId,    \* number of ObjectIds issued so far
    clock,     \* Date.now(), in ticks: it advances between any two documents created
    pc,        \* per client: where its request's handler stands
    req,       \* per client: the request in flight with the locals of its handler
    last       \* the last completed request, its client and its response

vars == <<db, nextId, clock, pc, req, last>>

(***************************************************************************)
(* Bounds of the model.                                                    *)
(***************************************************************************)
MaxUsers == 2            \* documents ever created in one behaviour

Clients == {"c1", "c2"}

(***************************************************************************)
(* String helpers (JavaScript String / path semantics).                    *)
(***************************************************************************)
CharAt(s, i) == SubSeq(s, i, i)

UpperLetters == "ABCDEFGHIJKLMNOPQRSTUVWXYZ"
LowerLetters == "abcdefghijklmnopqrstuvwxyz"
Digits == "0123456789"

CharsOf(s) == {CharAt(s, i) : i \in 1..Len(s)}

UpperChars == CharsOf(UpperLetters)
AlnumChars == UpperChars \cup CharsOf(LowerLetters) \cup CharsOf(Digits)
HexChars == CharsOf("0123456789abcdefABCDEF")
Whitespace == {" "}

\* the lowercase letter of each uppercase letter
LowerOf ==
    [c \in UpperChars |->
        CharAt(LowerLetters, CHOOSE i \in 1..26 : CharAt(UpperLetters, i) = c)]

LowerChar(c) == IF c \in UpperChars THEN LowerOf[c] ELSE c

RECURSIVE toLowerCase(_)
toLowerCase(s) ==
    IF Len(s) = 0 THEN ""
    ELSE LowerChar(CharAt(s, 1)) \o toLowerCase(SubSeq(s, 2, Len(s)))

RECURSIVE trimStart(_)
trimStart(s) ==
    IF Len(s) > 0 /\ CharAt(s, 1) \in Whitespace
    THEN trimStart(SubSeq(s, 2, Len(s)))
    ELSE s

RECURSIVE trimEnd(_)
trimEnd(s) ==
    IF Len(s) > 0 /\ CharAt(s, Len(s)) \in Whitespace
    THEN trimEnd(SubSeq(s, 1, Len(s) - 1))
    ELSE s

trim(s) == trimEnd(trimStart(s))

startsWith(s, p) == Len(s) >= Len(p) /\ SubSeq(s, 1, Len(p)) = p
endsWith(s, p) == Len(s) >= Len(p) /\ SubSeq(s, Len(s) - Len(p) + 1, Len(s)) = p

\* index of the last "." of s, 0 when there is none
LastDot(s) ==
    LET dots == {i \in 1..Len(s) : CharAt(s, i) = "."}
    IN  IF dots = {} THEN 0 ELSE CHOOSE i \in dots : \A j \in dots : j <= i

\* path.extname: from the last "." on, "" when there is none or it leads the name
extname(s) == IF LastDot(s) <= 1 THEN "" ELSE SubSeq(s, LastDot(s), Len(s))

\* path.parse(s).name: the name without its extension
parseName(s) == SubSeq(s, 1, Len(s) - Len(extname(s)))

\* .replace(/[^a-zA-Z0-9]/g, "_")
RECURSIVE sanitize(_)
sanitize(s) ==
    IF Len(s) = 0 THEN ""
    ELSE (IF CharAt(s, 1) \in AlnumChars THEN CharAt(s, 1) ELSE "_")
         \o sanitize(SubSeq(s, 2, Len(s)))

\* .substring(0, n)
substring0(s, n) == SubSeq(s, 1, IF Len(s) < n THEN Len(s) ELSE n)

\* /^[^\s@]+@[^\s@]+\.[^\s@]+$/.test(s)
emailRegexTest(s) ==
    \E a \in 2..Len(s) : \E d \in (a + 2)..(Len(s) - 1) :
        /\ CharAt(s, a) = "@"
        /\ CharAt(s, d) = "."
        /\ \A k \in (1..Len(s)) \ {a} : CharAt(s, k) \notin (Whitespace \cup {"@"})

\* '$regex: pattern, $options: "i"' on text, for patterns made of literal
\* characters and the metacharacter "." (any character)
RegexCharMatches(p, c) == p = "." \/ LowerChar(p) = LowerChar(c)

regexTestI(pattern, text) ==
    \E i \in 0..(Len(text) - Len(pattern)) :
        \A j \in 1..Len(pattern) :
            RegexCharMatches(CharAt(pattern, j), CharAt(text, i + j))

\* text contains s, ignoring case (String.includes on the lowercased strings)
includesI(text, s) ==
    \E i \in 0..(Len(text) - Len(s)) :
        toLowerCase(SubSeq(text, i + 1, i + Len(s))) = toLowerCase(s)

(***************************************************************************)
(* The Auth schema (authModel): setters, defaults, validators, hooks.      *)
(***************************************************************************)
UsernameMinLength == 3
UsernameMaxLength == 20
PasswordMinLength == 9
BcryptCost == 12

RoleEnum == {"admin", "instructor", "student"}
DefaultRole == "student"
DefaultProfilePicture ==
    "https://res.cloudinary.com/dz1qj3x8h/image/upload/v1735681234/novanector/default-profile-picture.png"

\* schema setters, applied when a path is assigned and when a query filter is cast
castUsername(v) == trim(v)
castEmail(v) == toLowerCase(trim(v))

SchemaPictureExtensions == {"png", "jpg", "jpeg", "gif", "webp"}

\* /^(https?:\/\/.*\.(?:png|jpg|jpeg|gif|webp))$/.test(v)
profilePictureValidator(v) ==
    \E scheme \in {"http://", "https://"} : \E e \in SchemaPictureExtensions :
        /\ startsWith(v, scheme)
        /\ endsWith(v, "." \o e)
        /\ Len(v) >= Len(scheme) + 1 + Len(e)

\* isValidImageUrl of the upload module: the same pattern with bmp and tiff, ignoring case
isValidImageUrl(url) ==
    \E scheme \in {"http://", "https://"} :
      \E e \in SchemaPictureExtensions \cup {"bmp", "tiff"} :
        /\ startsWith(toLowerCase(url), scheme)
        /\ endsWith(toLowerCase(url), "." \o e)
        /\ Len(url) >= Len(scheme) + 1 + Len(e)

\* bcrypt.hash(password, 12) in the pre-save hook, and bcrypt.compare
bcryptHash(password) == "$2a$" \o ToString(BcryptCost) \o "$" \o password
comparePassword(doc, candidatePassword) == doc.password = bcryptHash(candidatePassword)

\* a serialisation that keeps every path of the document
toJSON_withPassword(doc) == doc

\* toJSON: the document without its password
toJSON(doc) == [f \in (DOMAIN doc) \ {"password"} |-> doc[f]]

\* a schema without validators
validateSync_noValidators(doc) == <<>>

\* the validation messages of a document, in schema order (empty when it is valid)
validateSync(doc) ==
    (IF doc.username = ""
        THEN <<"Path 'username' is required.">>
     ELSE IF Len(doc.username) < UsernameMinLength
        THEN <<"Path 'username' ('" \o doc.username
               \o "') is shorter than the minimum allowed length (3).">>
     ELSE IF Len(doc.username) > UsernameMaxLength
        THEN <<"Path 'username' ('" \o doc.username
               \o "') is longer than the maximum allowed length (20).">>
     ELSE <<>>)
    \o (IF doc.email = "" THEN <<"Path 'email' is required.">>
        ELSE IF ~emailRegexTest(doc.email) THEN <<doc.email \o " is not a valid email!">>
        ELSE <<>>)
    \o (IF doc.password = "" THEN <<"Path 'password' is required.">>
        ELSE IF Len(doc.password) < PasswordMinLength
           THEN <<"Path 'password' ('" \o doc.password
                  \o "') is shorter than the minimum allowed length (9).">>
        ELSE <<>>)
    \o (IF ~profilePictureValidator(doc.profilePicture)
           THEN <<doc.profilePicture \o " is not a valid image URL!">>
        ELSE <<>>)
    \o (IF doc.role \notin RoleEnum
           THEN <<"'" \o doc.role \o "' is not a valid enum value for path 'role'.">>
        ELSE <<>>)

\* the ObjectId the driver issues for the n-th document; casting accepts 24 hex characters
ObjectId(n) == "64b7f0c2a1d3e4f5a6b7c8d" \o ToString(n % 10)
isObjectId(s) == Len(s) = 24 /\ \A i \in 1..24 : CharAt(s, i) \in HexChars

\* new Auth({...}): setters and defaults applied; the password still plaintext
newAuth(username, email, password, profilePicture, role) ==
    [ _id |-> ObjectId(nextId + 1),
      username |-> castUsername(username),
      email |-> castEmail(email),
      password |-> password,
      profilePicture |-> IF profilePicture = "" THEN DefaultProfilePicture
                         ELSE profilePicture,
      role |-> role,
      createdAt |-> 0 ]

\* a collection whose schema declares no unique index
duplicateKeys_noIndex(store, doc) == {}

\* the unique indexes (username, email) that another document already occupies
duplicateKeys(store, doc) ==
    {f \in {"username", "email"} :
        \E d \in store : d._id # doc._id /\ d[f] = doc[f]}

\* collection queries, their filters cast through the schema
findById(store, id) == {d \in store : d._id = id}
findByEmail(store, email) == {d \in store : d.email = castEmail(email)}
findByUsername(store, username) == {d \in store : d.username = castUsername(username)}
findByEmailOrUsername(store, email, username) ==
    findByEmail(store, email) \cup findByUsername(store, username)

(***************************************************************************)
(* The upload module (multer configuration).                               *)
(***************************************************************************)
FileSizeLimit == 5 * 1024 * 1024
FilesLimit == 1
FieldName == "profilePicture"
BaseNameLength == 20

allowedMimeTypes ==
    {"image/jpeg", "image/jpg", "image/png", "image/gif", "image/webp",
     "image/bmp", "image/tiff"}
allowedExtensions == {".jpg", ".jpeg", ".png", ".gif", ".webp", ".bmp", ".tiff"}

\* a filter that trusts the declared MIME type alone
fileFilter_mimeOnly(file) == file.mimetype \in allowedMimeTypes

fileFilter(file) ==
    /\ file.mimetype \in allowedMimeTypes
    /\ toLowerCase(extname(file.originalname)) \in allowedExtensions

\* diskStorage.filename
storageFilename(file, timestamp, randomString) ==
    substring0(sanitize(parseName(file.originalname)), BaseNameLength)
    \o "-" \o ToString(timestamp) \o "-" \o randomString
    \o toLowerCase(extname(file.originalname))

NoError == [name |-> "", code |-> "", message |-> ""]
MulterError(code) == [name |-> "MulterError", code |-> code, message |-> code]
InvalidFileType ==
    [name |-> "Error", code |-> "",
     message |-> "Invalid file type. Only JPEG, PNG, GIF, WebP, BMP, and TIFF images are allowed."]

\* profilePictureUpload.single("profilePicture") over the file parts of a request:
\* the error passed to next(), or none and the name of the stored file (empty without a file)
uploadProfilePicture(files, timestamp, randomString) ==
    IF Len(files) = 0 THEN [error |-> NoError, filename |-> ""]
    ELSE IF files[1].fieldname # FieldName
        THEN [error |-> MulterError("LIMIT_UNEXPECTED_FILE"), filename |-> ""]
    ELSE IF ~fileFilter(files[1])
        THEN [error |-> InvalidFileType, filename |-> ""]
    ELSE IF files[1].size > FileSizeLimit
        THEN [error |-> MulterError("LIMIT_FILE_SIZE"), filename |-> ""]
    ELSE IF Len(files) > FilesLimit
        THEN [error |-> MulterError("LIMIT_FILE_COUNT"), filename |-> ""]
    ELSE [error |-> NoError,
          filename |-> storageFilename(files[1], timestamp, randomString)]

Json(status, body) == [status |-> status, body |-> body]

handleMulterError(error) ==
    IF error.name = "MulterError"
    THEN CASE error.code = "LIMIT_FILE_SIZE" ->
                Json(400, [success |-> FALSE,
                           message |-> "File size too large. Maximum size allowed is 5MB.",
                           error |-> "FILE_TOO_LARGE"])
           [] error.code = "LIMIT_FILE_COUNT" ->
                Json(400, [success |-> FALSE,
                           message |-> "Too many files. Only one file is allowed.",
                           error |-> "TOO_MANY_FILES"])
           [] error.code = "LIMIT_UNEXPECTED_FILE" ->
                Json(400, [success |-> FALSE,
                           message |-> "Unexpected field name. Use 'profilePicture' as field name.",
                           error |-> "UNEXPECTED_FIELD"])
           [] OTHER ->
                Json(400, [success |-> FALSE,
                           message |-> "File upload error occurred.",
                           error |-> error.code])
    ELSE Json(400, [success |-> FALSE,
                    message |-> IF error.message # "" THEN error.message
                                ELSE "File upload failed.",
                    error |-> "UPLOAD_ERROR"])

generateImageUrl(filename, protocol, host) ==
    protocol \o "://" \o host \o "/uploads/profile-pictures/" \o filename

(***************************************************************************)
(* Requests, responses and the handlers' plumbing.                         *)
(***************************************************************************)
NoDoc ==
    [ _id |-> "", username |-> "", email |-> "", password |-> "",
      profilePicture |-> "", role |-> "", createdAt |-> 0 ]

NoBody == [username |-> "", email |-> "", password |-> "", role |-> ""]
NoQuery == [role |-> "", search |-> ""]

\* an HTTP request: what the client sent, then the handler's locals
Request(op, userId, body, files, query, protocol, host) ==
    [ op |-> op, userId |-> userId, body |-> body, files |-> files, query |-> query,
      protocol |-> protocol, host |-> host,
      filename |-> "",       \* req.file.filename, empty without an accepted file
      user |-> NoDoc,        \* the document a handler loaded
      users |-> <<>> ]       \* the page a list query read

NoRequest == Request("", "", NoBody, <<>>, NoQuery, "", "")
NoResponse == Json(0, [success |-> FALSE, message |-> ""])

InternalServerError == Json(500, [success |-> FALSE, message |-> "Internal server error."])
UserNotFound == Json(404, [success |-> FALSE, message |-> "User not found."])
ValidationFailed(errorMessages) ==
    Json(400, [success |-> FALSE, message |-> "Validation error.", errors |-> errorMessages])

\* res.status(..).json(..): the handler of request r is done
Respond(c, r, res) ==
    /\ last' = [client |-> c, req |-> r, res |-> res]
    /\ pc' = [pc EXCEPT ![c] = "idle"]
    /\ req' = [req EXCEPT ![c] = NoRequest]

\* the handler of request r goes on to its next store call
Goto(c, r, label) ==
    /\ pc' = [pc EXCEPT ![c] = label]
    /\ req' = [req EXCEPT ![c] = r]
    /\ UNCHANGED last

\* a request arrives: the upload middleware has run; stamp is what Date.now() and
\* crypto.randomBytes(8) gave it for the name of the file
Receive(c, r, stamp) ==
    [r EXCEPT !.filename =
        uploadProfilePicture(r.files, stamp.timestamp, stamp.randomString).filename]

UploadError(r, stamp) ==
    uploadProfilePicture(r.files, stamp.timestamp, stamp.randomString).error

\* documents a request may still create
InFlightCreates == Cardinality({c \in Clients : pc[c] = "createAuth_save"})

(***************************************************************************)
(* createAuth: POST /register                                              *)
(***************************************************************************)
existingUserMessage(existingUser, email) ==
    IF existingUser.email = email
    THEN "User with this email already exists."
    ELSE "Username is already taken."

createAuth_begin(c, body, files, protocol, host, stamp) ==
    LET r == Receive(c, Request("register", "", body, files, NoQuery, protocol, host),
                     stamp)
        error == UploadError(r, stamp)
        existing == findByEmailOrUsername(db, body.email, body.username)
    IN  /\ pc[c] = "idle"
        /\ UNCHANGED <<db, nextId, clock>>
        /\ IF error # NoError
              THEN Respond(c, r, handleMulterError(error))
           ELSE IF body.username = "" \/ body.email = "" \/ body.password = ""
              THEN Respond(c, r, Json(400, [success |-> FALSE,
                        message |-> "Username, email, and password are required."]))
           ELSE IF Len(body.password) < PasswordMinLength
              THEN Respond(c, r, Json(400, [success |-> FALSE,
                        message |-> "Password must be at least 9 characters long."]))
           ELSE IF ~emailRegexTest(body.email)
              THEN Respond(c, r, Json(400, [success |-> FALSE,
                        message |-> "Please provide a valid email address."]))
           ELSE IF existing # {}
              THEN \E existingUser \in existing :
                      Respond(c, r, Json(400, [success |-> FALSE,
                          message |-> existingUserMessage(existingUser, body.email)]))
           ELSE /\ nextId + InFlightCreates < MaxUsers
                /\ Goto(c, r, "createAuth_save")

\* the document createAuth builds from its request
createAuth_newUser(r) ==
    newAuth(r.body.username, r.body.email, r.body.password,
            IF r.filename # "" THEN generateImageUrl(r.filename, r.protocol, r.host)
            ELSE "",
            IF r.body.role # "" THEN r.body.role ELSE DefaultRole)

\* the catch block of createAuth on a duplicate key error (code 11000)
createAuth_duplicateKey(field) ==
    Json(400, [success |-> FALSE, message |-> field \o " already exists."])

createAuth_save(c) ==
    LET r == req[c]
        newUser == createAuth_newUser(r)
        errors == validateSync(newUser)
        dup == duplicateKeys(db, newUser)
    IN  /\ pc[c] = "createAuth_save"
        /\ IF errors # <<>>
              THEN /\ Respond(c, r, ValidationFailed(errors))
                   /\ UNCHANGED <<db, nextId, clock>>
           ELSE IF dup # {}
              THEN /\ \E field \in dup : Respond(c, r, createAuth_duplicateKey(field))
                   /\ UNCHANGED <<db, nextId, clock>>
           ELSE LET now == clock + 1 IN
                   LET saved == [newUser EXCEPT !.password = bcryptHash(@),
                                                !.createdAt = now]
                   IN  /\ db' = db \cup {saved}
                       /\ nextId' = nextId + 1
                       /\ clock' = now
                       /\ Respond(c, r, Json(201, [success |-> TRUE,
                              message |-> "User created successfully.",
                              user |-> toJSON(saved)]))

(***************************************************************************)
(* loginAuth: POST /login                                                  *)
(***************************************************************************)
jwtSign(user) ==
    [ userId |-> user._id, email |-> user.email, username |-> user.username,
      role |-> user.role, expiresIn |-> "24h" ]

\* a login that tells an unknown email from a wrong password
InvalidCredentials_leaky(which) ==
    IF which = "email"
    THEN Json(404, [success |-> FALSE, message |-> "User not found."])
    ELSE Json(401, [success |-> FALSE, message |-> "Invalid email or password."])

InvalidCredentials(which) ==
    Json(401, [success |-> FALSE, message |-> "Invalid email or password."])

\* the response of loginAuth on a store
loginAuth_response(store, body) ==
    IF body.email = "" \/ body.password = ""
    THEN Json(400, [success |-> FALSE, message |-> "Email and password are required."])
    ELSE LET found == findByEmail(store, toLowerCase(body.email))
         IN  IF found = {} THEN InvalidCredentials("email")
             ELSE LET user == CHOOSE d \in found : TRUE
                  IN  IF ~comparePassword(user, body.password)
                      THEN InvalidCredentials("password")
                      ELSE Json(200, [success |-> TRUE, message |-> "Login successful.",
                                      user |-> toJSON(user), token |-> jwtSign(user)])

loginAuth(c, body) ==
    /\ pc[c] = "idle"
    /\ Respond(c, Request("login", "", body, <<>>, NoQuery, "", ""),
               loginAuth_response(db, body))
    /\ UNCHANGED <<db, nextId, clock>>

(***************************************************************************)
(* updateUserProfile: PUT /users/:userId                                   *)
(***************************************************************************)
emailChanged(body, user) == body.email # "" /\ body.email # user.email
usernameChanged(body, user) == body.username # "" /\ body.username # user.username

\* where updateUserProfile next awaits the store once the record is loaded
updateUserProfile_afterLoad(body, user) ==
    IF emailChanged(body, user) THEN "updateUserProfile_email"
    ELSE IF usernameChanged(body, user) THEN "updateUserProfile_username"
    ELSE "updateUserProfile_save"

updateUserProfile_begin(c, userId, body, files, protocol, host, stamp) ==
    LET r == Receive(c, Request("update", userId, body, files, NoQuery, protocol, host),
                     stamp)
        error == UploadError(r, stamp)
        found == findById(db, userId)
    IN  /\ pc[c] = "idle"
        /\ UNCHANGED <<db, nextId, clock>>
        /\ IF error # NoError
              THEN Respond(c, r, handleMulterError(error))
           ELSE IF ~isObjectId(userId)
              THEN Respond(c, r, InternalServerError)
           ELSE IF found = {}
              THEN Respond(c, r, UserNotFound)
           ELSE \E user \in found :
                   Goto(c, [r EXCEPT !.user = user], updateUserProfile_afterLoad(body, user))

updateUserProfile_email(c) ==
    LET r == req[c]
    IN  /\ pc[c] = "updateUserProfile_email"
        /\ UNCHANGED <<db, nextId, clock>>
        /\ IF findByEmail(db, r.body.email) # {}
              THEN Respond(c, r, Json(400, [success |-> FALSE,
                                         message |-> "Email is already taken."]))
           ELSE IF usernameChanged(r.body, r.user)
              THEN Goto(c, r, "updateUserProfile_username")
           ELSE Goto(c, r, "updateUserProfile_save")

updateUserProfile_username(c) ==
    LET r == req[c]
    IN  /\ pc[c] = "updateUserProfile_username"
        /\ UNCHANGED <<db, nextId, clock>>
        /\ IF findByUsername(db, r.body.username) # {}
              THEN Respond(c, r, Json(400, [success |-> FALSE,
                                         message |-> "Username is already taken."]))
           ELSE Goto(c, r, "updateUserProfile_save")

\* the loaded document after the handler's assignments (setters applied)
updateUserProfile_assign(r) ==
    [r.user EXCEPT
        !.profilePicture = IF r.filename # ""
                           THEN generateImageUrl(r.filename, r.protocol, r.host) ELSE @,
        !.username = IF r.body.username # "" THEN castUsername(r.body.username) ELSE @,
        !.email = IF r.body.email # "" THEN castEmail(r.body.email) ELSE @,
        !.role = IF r.body.role # "" THEN r.body.role ELSE @]

\* the paths of a loaded document that its handler changed
modifiedPaths(loaded, assigned) == {f \in DOMAIN loaded : assigned[f] # loaded[f]}

\* the stored document after save() writes the modified paths of `assigned`
applyModified(stored, loaded, assigned) ==
    [f \in DOMAIN stored |->
        IF f \in modifiedPaths(loaded, assigned) THEN assigned[f] ELSE stored[f]]

\* the catch block of updateUserProfile: a ValidationError, or anything else
updateUserProfile_catch(errorName, errorMessages) ==
    IF errorName = "ValidationError" THEN ValidationFailed(errorMessages)
    ELSE InternalServerError

\* the catch block of updateProfilePicture
updateProfilePicture_catch(errorName, errorMessages) == InternalServerError

\* document.save() of a loaded document: validation, then an update of the stored
\* document by _id; the response is that of the handler's catch block on an error,
\* ok otherwise
SaveLoaded(c, loaded, assigned, ok) ==
    LET r == req[c]
        catch(errorName, errorMessages) ==
            IF r.op = "update" THEN updateUserProfile_catch(errorName, errorMessages)
            ELSE updateProfilePicture_catch(errorName, errorMessages)
        errors == validateSync(assigned)
        current == findById(db, loaded._id)
    IN  /\ UNCHANGED <<nextId, clock>>
        /\ IF errors # <<>>
              THEN /\ Respond(c, r, catch("ValidationError", errors))
                   /\ UNCHANGED db
           ELSE IF current = {}
              THEN /\ Respond(c, r, catch("DocumentNotFoundError", <<>>))
                   /\ UNCHANGED db
           ELSE \E stored \in current :
                  LET written == applyModified(stored, loaded, assigned)
                  IN  IF duplicateKeys(db, written) \cap modifiedPaths(loaded, assigned) # {}
                      THEN /\ Respond(c, r, catch("MongoServerError", <<>>))
                           /\ UNCHANGED db
                      ELSE /\ db' = (db \ {stored}) \cup {written}
                           /\ Respond(c, r, ok)

updateUserProfile_save(c) ==
    /\ pc[c] = "updateUserProfile_save"
    /\ SaveLoaded(c, req[c].user, updateUserProfile_assign(req[c]),
                  Json(200, [success |-> TRUE, message |-> "Profile updated successfully.",
                             user |-> toJSON(updateUserProfile_assign(req[c]))]))

(***************************************************************************)
(* updateProfilePicture: PUT /users/:userId/picture                        *)
(***************************************************************************)
updateProfilePicture_begin(c, userId, files, protocol, host, stamp) ==
    LET r == Receive(c, Request("picture", userId, NoBody, files, NoQuery, protocol, host),
                     stamp)
        error == UploadError(r, stamp)
        found == findById(db, userId)
    IN  /\ pc[c] = "idle"
        /\ UNCHANGED <<db, nextId, clock>>
        /\ IF error # NoError
              THEN Respond(c, r, handleMulterError(error))
           ELSE IF r.filename = ""
              THEN Respond(c, r, Json(400, [success |-> FALSE,
                                            message |-> "No file uploaded."]))
           ELSE IF ~isObjectId(userId)
              THEN Respond(c, r, InternalServerError)
           ELSE IF found = {}
              THEN Respond(c, r, UserNotFound)
           ELSE \E user \in found :
                   Goto(c, [r EXCEPT !.user = user], "updateProfilePicture_save")

updateProfilePicture_assign(r) ==
    [r.user EXCEPT !.profilePicture = generateImageUrl(r.filename, r.protocol, r.host)]

updateProfilePicture_save(c) ==
    /\ pc[c] = "updateProfilePicture_save"
    /\ SaveLoaded(c, req[c].user, updateProfilePicture_assign(req[c]),
                  Json(200, [success |-> TRUE,
                             message |-> "Profile picture updated successfully.",
                             user |-> toJSON(updateProfilePicture_assign(req[c]))]))

(***************************************************************************)
(* getSingleUser: GET /users/:userId                                       *)
(***************************************************************************)
getSingleUser_response(store, userId) ==
    IF ~isObjectId(userId) THEN InternalServerError
    ELSE IF findById(store, userId) = {} THEN UserNotFound
    ELSE Json(200, [success |-> TRUE, message |-> "User retrieved successfully.",
                    user |-> toJSON(CHOOSE d \in findById(store, userId) : TRUE)])

getSingleUser(c, userId) ==
    /\ pc[c] = "idle"
    /\ Respond(c, Request("get", userId, NoBody, <<>>, NoQuery, "", ""),
               getSingleUser_response(db, userId))
    /\ UNCHANGED <<db, nextId, clock>>

(***************************************************************************)
(* deleteUser: DELETE /users/:userId                                       *)
(***************************************************************************)
deleteUser_response(store, userId) ==
    IF ~isObjectId(userId) THEN InternalServerError
    ELSE IF findById(store, userId) = {} THEN UserNotFound
    ELSE Json(200, [success |-> TRUE, message |-> "User deleted successfully."])

\* findByIdAndDelete
findByIdAndDelete(store, userId) ==
    IF isObjectId(userId) THEN store \ findById(store, userId) ELSE store

deleteUser(c, userId) ==
    /\ pc[c] = "idle"
    /\ Respond(c, Request("delete", userId, NoBody, <<>>, NoQuery, "", ""),
               deleteUser_response(db, userId))
    /\ db' = findByIdAndDelete(db, userId)
    /\ UNCHANGED <<nextId, clock>>

(***************************************************************************)
(* getAllUsers: GET /users                                                 *)
(***************************************************************************)
\* const { page = 1, limit = 10, role, search } = req.query
queryPage(query) == IF "page" \in DOMAIN query THEN query.page ELSE 1
queryLimit(query) == IF "limit" \in DOMAIN query THEN query.limit ELSE 10

\* the filter getAllUsers builds, applied to one document
queryMatches(query, d) ==
    /\ query.role # "" => d.role = query.role
    /\ query.search # "" =>
          \/ regexTestI(query.search, d.username)
          \/ regexTestI(query.search, d.email)

\* .sort({ createdAt: -1 }): the orders the store may return (ties in any order)
sortCreatedAtDesc(S) ==
    {o \in [1..Cardinality(S) -> S] :
        /\ \A i, j \in DOMAIN o : i # j => o[i] # o[j]
        /\ \A i, j \in DOMAIN o : i < j => o[i].createdAt >= o[j].createdAt}

\* .select("-password")
selectNoPassword(d) == [f \in (DOMAIN d) \ {"password"} |-> d[f]]

Min(a, b) == IF a < b THEN a ELSE b

\* Auth.find(query).select("-password").skip(skip).limit(limit).sort({createdAt: -1})
findUsers(store, query) ==
    LET skip == (queryPage(query) - 1) * queryLimit(query)
        matching == {d \in store : queryMatches(query, d)}
    IN  {[i \in 1..(Min(skip + queryLimit(query), Len(o)) - Min(skip, Len(o))) |->
             selectNoPassword(o[skip + i])] : o \in sortCreatedAtDesc(matching)}

countDocuments(store, query) == Cardinality({d \in store : queryMatches(query, d)})

\* Math.ceil(a / b) for a >= 0, b >= 1
ceilDiv(a, b) == (a + b - 1) \div b

getAllUsers_response(users, totalUsers, query) ==
    Json(200, [success |-> TRUE, message |-> "Users retrieved successfully.",
               users |-> users,
               pagination |->
                 [ currentPage |-> queryPage(query),
                   totalPages |-> ceilDiv(totalUsers, queryLimit(query)),
                   totalUsers |-> totalUsers,
                   hasNextPage |-> queryPage(query) < ceilDiv(totalUsers, queryLimit(query)),
                   hasPrevPage |-> queryPage(query) > 1 ]])

getAllUsers_begin(c, query) ==
    /\ pc[c] = "idle"
    /\ Goto(c, Request("list", "", NoBody, <<>>, query, "", ""), "getAllUsers_find")
    /\ UNCHANGED <<db, nextId, clock>>

getAllUsers_find(c) ==
    /\ pc[c] = "getAllUsers_find"
    /\ \E users \in findUsers(db, req[c].query) :
          Goto(c, [req[c] EXCEPT !.users = users], "getAllUsers_count")
    /\ UNCHANGED <<db, nextId, clock>>

getAllUsers_count(c) ==
    /\ pc[c] = "getAllUsers_count"
    /\ Respond(c, req[c],
               getAllUsers_response(req[c].users, countDocuments(db, req[c].query),
                                    req[c].query))
    /\ UNCHANGED <<db, nextId, clock>>

(***************************************************************************)
(* Inputs.                                                                  *)
(***************************************************************************)
Body(username, email, password, role) ==
    [username |-> username, email |-> email, password |-> password, role |-> role]

File(fieldname, mimetype, originalname, size) ==
    [fieldname |-> fieldname, mimetype |-> mimetype, originalname |-> originalname,
     size |-> size]

Host == "api.nova.io"
Stamps == {[timestamp |-> 1735681234, randomString |-> "9f86d081884c7d65"]}

PngFile == File(FieldName, "image/png", "me.PNG", 4 * 1024 * 1024)
JpegFile == File(FieldName, "image/jpeg", "my photo.jpeg", 1024)
BmpFile == File(FieldName, "image/bmp", "scan.bmp", 1024)

\* an id no document ever has, and a string that is no ObjectId
UnknownId == ObjectId(0)
MalformedId == "abc"
IssuedIds == {ObjectId(n) : n \in 1..MaxUsers}

(***************************************************************************)
(* The initial state: an empty collection, every client idle.              *)
(***************************************************************************)
Init ==
    /\ db = {}
    /\ nextId = 0
    /\ clock = 0
    /\ pc = [c \in Clients |-> "idle"]
    /\ req = [c \in Clients |-> NoRequest]
    /\ last = [client |-> "", req |-> NoRequest, res |-> NoResponse]

(***************************************************************************)
(* Spec: requests of several clients interleave at every store call.       *)
(***************************************************************************)
RaceRegisterBodies ==
    { Body("ann", "ann@x.io", "password1", ""),
      Body("bob", "Bob@x.io", "password1", "") }

RaceUpdateBodies == { Body("bob", "BOB@x.io", "", "") }

Next ==
    \E c \in Clients :
        \/ \E body \in RaceRegisterBodies : \E rnd \in Stamps :
              createAuth_begin(c, body, <<>>, "http", Host, rnd)
        \/ createAuth_save(c)
        \/ \E id \in IssuedIds : \E body \in RaceUpdateBodies : \E rnd \in Stamps :
              updateUserProfile_begin(c, id, body, <<>>, "http", Host, rnd)
        \/ updateUserProfile_email(c)
        \/ updateUserProfile_username(c)
        \/ updateUserProfile_save(c)
        \/ \E id \in IssuedIds : \E rnd \in Stamps :
              updateProfilePicture_begin(c, id, <<PngFile>>, "https", Host, rnd)
        \/ updateProfilePicture_save(c)
        \/ \E id \in IssuedIds : deleteUser(c, id)

Spec == Init /\ [][Next]_vars

(***************************************************************************)
(* SpecAccounts: one client, one request at a time: registration with its  *)
(* validation and conflicts, login, lookup, listing and deletion.          *)
(***************************************************************************)
AccountRegisterBodies ==
    { Body("ann", "ann@x.io", "password1", ""),
      Body("bob", "Bob@x.io", "password1", "instructor"),
      Body("zed", "Ann@x.io", "password1", "instructor"),   \* the email of ann, in capitals
      Body("ann ", "zed@x.io", "password1", "admin"),       \* the username of ann, padded
      Body("ann", "bob@x.io", "password1", ""),             \* username of one, email of another
      Body("cat", "cat@x.io", "", ""),
      Body("cat", "cat@x.io", "short", ""),
      Body("cat", "cat.x.io", "password1", ""),
      Body("cat", "cat@x.io", "password1", "root"),
      Body("al", "cat@x.io", "password1", "") }

LoginBodies ==
    { Body("", "ann@x.io", "password1", ""),
      Body("", "ANN@x.io", "password1", ""),
      Body("", "ann@x.io", "password2", ""),
      Body("", "eve@x.io", "password1", ""),
      Body("", "ann@x.io", "", "") }

RequestIds == IssuedIds \cup {UnknownId, MalformedId}

ListQueries ==
    { NoQuery,
      [role |-> "instructor", search |-> "ANN", page |-> 1, limit |-> 1],
      [role |-> "", search |-> "n.x", page |-> 1, limit |-> 2],
      [role |-> "", search |-> "", page |-> 2, limit |-> 1] }

AccountsNext ==
    \E c \in {"c1"} :
        \/ \E body \in AccountRegisterBodies : \E stamp \in Stamps :
              createAuth_begin(c, body, <<>>, "http", Host, stamp)
        \/ createAuth_save(c)
        \/ \E body \in LoginBodies : loginAuth(c, body)
        \/ \E id \in RequestIds : getSingleUser(c, id)
        \/ \E query \in ListQueries : getAllUsers_begin(c, query)
        \/ getAllUsers_find(c)
        \/ getAllUsers_count(c)
        \/ \E id \in RequestIds : deleteUser(c, id)

SpecAccounts == Init /\ [][AccountsNext]_vars

(***************************************************************************)
(* SpecProfile: one client, one request at a time: registration with an    *)
(* upload, profile and picture updates with their uploads, and the reads   *)
(* that return records.                                                    *)
(***************************************************************************)
PdfFile == File(FieldName, "application/pdf", "cv.png", 1024)
ExeFile == File(FieldName, "image/png", "me.png.exe", 1024)
LargeFile == File(FieldName, "image/png", "big.png", FileSizeLimit + 1)
LimitFile == File(FieldName, "image/png", "me.png", FileSizeLimit)
AvatarFile == File("avatar", "image/png", "me.png", 1024)

Upload(body, files, protocol) == [body |-> body, files |-> files, protocol |-> protocol]

ProfileRegisterRequests ==
    { Upload(Body("ann", "ann@x.io", "password1", ""), <<>>, "http"),
      Upload(Body("bob", "Bob@x.io", "password1", "instructor"), <<JpegFile>>, "http"),
      Upload(Body("bob", "Bob@x.io", "password1", "instructor"), <<BmpFile>>, "http"),
      Upload(Body("bob", "Bob@x.io", "password1", "instructor"), <<PdfFile>>, "http") }

ProfileUpdateRequests ==
    { Upload(Body("zed", "Zed@x.io", "", "admin"), <<>>, "http"),
      Upload(Body("", "", "", "root"), <<>>, "http"),
      Upload(NoBody, <<PngFile>>, "https"),
      Upload(NoBody, <<BmpFile>>, "https"),
      Upload(NoBody, <<LargeFile>>, "https") }

ProfilePictureUploads ==
    { <<>>, <<PngFile>>, <<BmpFile>>, <<LimitFile>>, <<PdfFile>>, <<ExeFile>>,
      <<LargeFile>>, <<AvatarFile>>, <<PngFile, PngFile>> }

ProfileNext ==
    \E c \in {"c1"} :
        \/ \E u \in ProfileRegisterRequests : \E stamp \in Stamps :
              createAuth_begin(c, u.body, u.files, u.protocol, Host, stamp)
        \/ createAuth_save(c)
        \/ \E id \in RequestIds : \E u \in ProfileUpdateRequests : \E stamp \in Stamps :
              updateUserProfile_begin(c, id, u.body, u.files, u.protocol, Host, stamp)
        \/ updateUserProfile_email(c)
        \/ updateUserProfile_username(c)
        \/ updateUserProfile_save(c)
        \/ \E id \in RequestIds : \E files \in ProfilePictureUploads : \E stamp \in Stamps :
              updateProfilePicture_begin(c, id, files, "https", Host, stamp)
        \/ updateProfilePicture_save(c)
        \/ loginAuth(c, Body("", "bob@x.io", "password1", ""))
        \/ \E id \in IssuedIds : getSingleUser(c, id)
        \/ getAllUsers_begin(c, NoQuery)
        \/ getAllUsers_find(c)
        \/ getAllUsers_count(c)

SpecProfile == Init /\ [][ProfileNext]_vars

(***************************************************************************)
(* C1: in every reachable state of the collection, under any interleaving  *)
(* of register, profile update, picture update and delete requests, no two *)
(* distinct documents share a username and no two share a stored email.    *)
(***************************************************************************)
C1_UniqueUsernameAndEmail ==
    \A d1, d2 \in db :
        d1 # d2 => /\ d1.username # d2.username
                   /\ d1.email # d2.email
                   /\ d1._id # d2._id

\* two requests raced for the same keys and the unique index stopped the second
C1_Witness ==
    /\ Cardinality(db) >= 1
    /\ last.req.op = "register"
    /\ last.res.body.message \in {"email already exists.", "username already exists."}

(***************************************************************************)
(* C2: a registration (complete and well-formed) whose email, lowercased   *)
(* as the store lowercases it, is the stored email of an existing record   *)
(* is rejected with a conflict whose message names the email; one whose    *)
(* username is an existing username, its email unused, is rejected with a  *)
(* conflict whose message names the username; neither creates a record.    *)
(***************************************************************************)
WellFormedRegistration(r) ==
    /\ r.body.username # "" /\ r.body.email # "" /\ r.body.password # ""
    /\ Len(r.body.password) >= PasswordMinLength
    /\ emailRegexTest(r.body.email)

EmailInUse(store, email) == \E d \in store : d.email = toLowerCase(trim(email))
UsernameInUse(store, username) == \E d \in store : d.username = trim(username)

Conflict(res, field) ==
    /\ res.status = 400
    /\ includesI(res.body.message, field)

C2_RegisterConflictNamesField ==
    [][ (last' # last /\ last'.req.op = "register" /\ WellFormedRegistration(last'.req))
        => /\ EmailInUse(db, last'.req.body.email)
                => Conflict(last'.res, "email") /\ db' = db
           /\ (UsernameInUse(db, last'.req.body.username)
               /\ ~EmailInUse(db, last'.req.body.email))
                => Conflict(last'.res, "username") /\ db' = db ]_vars

(***************************************************************************)
(* C3: on every store, a login with an email no record has and a login     *)
(* with the email of a record and a wrong password get the same response:  *)
(* status 401 and one message.                                             *)
(***************************************************************************)
ProbeEmails == {"ann@x.io", "ANN@x.io", "bob@x.io", "zed@x.io", "eve@x.io"}
ProbePasswords == {"password1", "password2", "x"}
ProbeLogins == {Body("", e, p, "") : e \in ProbeEmails, p \in ProbePasswords}

UnknownEmail(store, body) == findByEmail(store, toLowerCase(body.email)) = {}
WrongPassword(store, body) ==
    \E d \in findByEmail(store, toLowerCase(body.email)) : ~comparePassword(d, body.password)

C3_LoginFailuresIndistinguishable ==
    /\ LET unknown == {loginAuth_response(db, b) :
                            b \in {x \in ProbeLogins : UnknownEmail(db, x)}}
           wrong == {loginAuth_response(db, b) :
                          b \in {x \in ProbeLogins : WrongPassword(db, x)}}
       IN  \A r1 \in unknown : \A r2 \in wrong : r1 = r2 /\ r1.status = 401
    /\ (/\ last.req.op = "login"
        /\ last.req.body.email # "" /\ last.req.body.password # ""
        /\ UnknownEmail(db, last.req.body) \/ WrongPassword(db, last.req.body))
          => last.res = Json(401, [success |-> FALSE,
                                   message |-> "Invalid email or password."])

\* both kinds of failed login are possible on the store, and a wrong password was answered
C3_Witness ==
    /\ last.req.op = "login"
    /\ WrongPassword(db, last.req.body)
    /\ \E e \in ProbeEmails : UnknownEmail(db, Body("", e, "password1", ""))
    /\ last.res.status = 401

(***************************************************************************)
(* C5: deleting an id that has no record answers 404 and leaves the store  *)
(* unchanged, so a second delete of a deleted id answers 404 and changes   *)
(* nothing.                                                                *)
(***************************************************************************)
C5_DeleteMissingIsNotFound ==
    [][ (last' # last /\ last'.req.op = "delete"
         /\ findById(db, last'.req.userId) = {})
        => last'.res.status = 404 /\ db' = db ]_vars

(***************************************************************************)
(* C8: a listing returns exactly the records that match the filter (the    *)
(* role when given; username or email containing the search string,        *)
(* ignoring case, when given), newest first, cut to the positions of the   *)
(* page, with totalUsers the number of matching records, totalPages =      *)
(* ceil(totalUsers / limit), hasNextPage = (page < totalPages) and         *)
(* hasPrevPage = (page > 1).                                               *)
(***************************************************************************)
MatchesFilter(query, d) ==
    /\ query.role # "" => d.role = query.role
    /\ query.search # "" =>
          \/ includesI(d.username, query.search)
          \/ includesI(d.email, query.search)

ExpectedPage(store, query, users) ==
    LET matching == {d \in store : MatchesFilter(query, d)}
        first == (queryPage(query) - 1) * queryLimit(query) + 1
        end == queryPage(query) * queryLimit(query)
    IN  \E o \in sortCreatedAtDesc(matching) :
            users = [i \in 1..(Min(end, Len(o)) - Min(first - 1, Len(o))) |->
                        selectNoPassword(o[first - 1 + i])]

ExpectedPagination(store, query, pagination) ==
    LET total == Cardinality({d \in store : MatchesFilter(query, d)})
    IN  /\ pagination.totalUsers = total
        /\ pagination.totalPages = ceilDiv(total, queryLimit(query))
        /\ pagination.hasNextPage = (queryPage(query) < pagination.totalPages)
        /\ pagination.hasPrevPage = (queryPage(query) > 1)

C8_ListReturnsMatchingPage ==
    last.req.op = "list"
        => /\ last.res.status = 200
           /\ ExpectedPage(db, last.req.query, last.res.body.users)
           /\ ExpectedPagination(db, last.req.query, last.res.body.pagination)

(***************************************************************************)
(* C4: no response that returns user records (register, login, profile     *)
(* update, picture update, lookup, listing) carries a password field, and  *)
(* no field of a returned record holds a plaintext password or a stored    *)
(* hash.                                                                   *)
(***************************************************************************)
ReturnedRecords(res) ==
    (IF "user" \in DOMAIN res.body THEN {res.body.user} ELSE {})
    \cup (IF "users" \in DOMAIN res.body
          THEN {res.body.users[i] : i \in DOMAIN res.body.users} ELSE {})
    \cup (IF "token" \in DOMAIN res.body THEN {res.body.token} ELSE {})

Secrets == {d.password : d \in db} \cup {"password1", bcryptHash("password1")}

C4_NoPasswordInResponses ==
    /\ "password" \notin DOMAIN last.res.body
    /\ \A rec \in ReturnedRecords(last.res) :
          /\ "password" \notin DOMAIN rec
          /\ \A f \in (DOMAIN rec) \ {"createdAt"} : rec[f] \notin Secrets

\* a login returned the record of a stored account
C4_Witness ==
    /\ last.req.op = "login"
    /\ last.res.status = 200
    /\ \E d \in db : last.res.body.user._id = d._id /\ d.password = bcryptHash("password1")

(***************************************************************************)
(* C6: the upload handler accepts a file iff its MIME type is in the image *)
(* allow-list, its lowercased extension is in the extension allow-list and *)
(* its size is at most 5 MB (application/pdf is rejected under every       *)
(* extension); every rejected upload is answered 400 with an error code,   *)
(* the account handler does not run and no record is created or changed.   *)
(***************************************************************************)
ImageMimeTypes ==
    {"image/jpeg", "image/jpg", "image/png", "image/gif", "image/webp",
     "image/bmp", "image/tiff"}
ImageExtensions == {".jpg", ".jpeg", ".png", ".gif", ".webp", ".bmp", ".tiff"}
FiveMegabytes == 5242880

Acceptable(file) ==
    /\ file.mimetype \in ImageMimeTypes
    /\ toLowerCase(extname(file.originalname)) \in ImageExtensions
    /\ file.size <= FiveMegabytes

ProbeFiles ==
    {File(FieldName, m, n, z) :
        m \in {"image/png", "image/tiff", "application/pdf", "text/html"},
        n \in {"a.png", "a.PNG", "a.tiff", "a.pdf", "a.png.exe", "png"},
        z \in {FiveMegabytes, FiveMegabytes + 1}}

Accepted(file) == uploadProfilePicture(<<file>>, 1735681234, "9f86d081884c7d65").error = NoError

\* the request of the handler client c just started or finished; the filter reads no
\* state, so its table over ProbeFiles is evaluated on the empty collection only
Arrived(c) == IF pc'[c] = "idle" THEN last'.req ELSE req'[c]

C6_UploadAcceptsAllowedImagesOnly ==
    [][ /\ db = {} => \A file \in ProbeFiles :
                         /\ Accepted(file) <=> Acceptable(file)
                         /\ file.mimetype = "application/pdf" => ~Accepted(file)
        /\ \A c \in {"c1"} :
             (pc[c] = "idle" /\ Arrived(c).files # <<>>) =>
                /\ (Len(Arrived(c).files) = 1 /\ Arrived(c).files[1].fieldname = FieldName)
                     => (Arrived(c).filename # "" <=> Acceptable(Arrived(c).files[1]))
                /\ Arrived(c).filename = ""
                     => /\ pc'[c] = "idle"
                        /\ last'.res.status = 400
                        /\ "error" \in DOMAIN last'.res.body
                        /\ last'.res.body.error # ""
                        /\ db' = db ]_vars

\* a PDF named as a PNG was sent for the picture of a stored account and refused
C6_Witness ==
    /\ last.req.op = "picture"
    /\ last.req.files = <<PdfFile>>
    /\ findById(db, last.req.userId) # {}
    /\ last.res.status = 400
    /\ last.res.body.error = "UPLOAD_ERROR"

(***************************************************************************)
(* C7: whenever the upload handler accepted a file, a picture update on an *)
(* existing record, and a registration or profile update carrying the file *)
(* and nothing else to refuse, succeeds and stores as the record's picture *)
(* the URL made of the request's scheme and host, the upload path and the  *)
(* generated filename.                                                     *)
(***************************************************************************)
DerivedUrl(r) ==
    r.protocol \o "://" \o r.host \o "/uploads/profile-pictures/" \o r.filename

NothingElseToRefuse(store, r) ==
    /\ r.body.role \in RoleEnum \cup {""}
    /\ IF r.op = "register"
       THEN /\ WellFormedRegistration(r)
            /\ Len(trim(r.body.username)) >= 3
            /\ ~EmailInUse(store, r.body.email)
            /\ ~UsernameInUse(store, r.body.username)
       ELSE /\ findById(store, r.userId) # {}
            /\ r.body.username = "" /\ r.body.email = ""

C7_AcceptedUploadBecomesPicture ==
    [][ (/\ last' # last
         /\ last'.req.op \in {"register", "update", "picture"}
         /\ last'.req.filename # ""
         /\ NothingElseToRefuse(db, last'.req))
        => /\ last'.res.status \in {200, 201}
           /\ \E d \in db' :
                /\ d.profilePicture = DerivedUrl(last'.req)
                /\ last'.req.op # "register" => d._id = last'.req.userId ]_vars

(***************************************************************************)
(* C9: every stored record has a role among admin, instructor and student  *)
(* and a picture that is the default placeholder or an absolute http(s)    *)
(* URL matching the image-URL pattern; a register, profile update or       *)
(* picture update that would store another role or picture is refused and  *)
(* leaves the store as it was.                                             *)
(***************************************************************************)
ImageUrlPattern(v) ==
    /\ \E scheme \in {"http://", "https://"} : startsWith(v, scheme) /\ Len(v) > Len(scheme)
    /\ \E e \in {".png", ".jpg", ".jpeg", ".gif", ".webp"} :
          endsWith(v, e) /\ Len(v) > Len(e) + Len("https://")

WellFormedRecord(d) ==
    /\ d.role \in {"admin", "instructor", "student"}
    /\ d.profilePicture = DefaultProfilePicture \/ ImageUrlPattern(d.profilePicture)

WouldBreakRecord(r) ==
    \/ r.body.role # "" /\ r.body.role \notin {"admin", "instructor", "student"}
    \/ r.filename # "" /\ ~ImageUrlPattern(DerivedUrl(r))

C9_RoleAndPictureWellFormed ==
    [][ /\ \A d \in db \cup db' : WellFormedRecord(d)
        /\ (/\ last' # last
            /\ last'.req.op \in {"register", "update", "picture"}
            /\ WouldBreakRecord(last'.req))
           => last'.res.status >= 400 /\ db' = db ]_vars

\* a stored account was asked to take a role outside the enumeration and kept its own
C9_Witness ==
    /\ last.req.op = "update"
    /\ last.req.body.role = "root"
    /\ last.res.status = 400
    /\ \E d \in db : d._id = last.req.userId /\ d.role \in {"admin", "instructor", "student"}

(***************************************************************************)
(* C10: a register or profile update that cannot complete because its      *)
(* username or email is that of another record is answered 400, never 500, *)
(* whether the pre-check or the unique index on save found the duplicate.  *)
(***************************************************************************)
DuplicatesAnother(store, r) ==
    IF r.op = "register"
    THEN WellFormedRegistration(r)
         /\ (EmailInUse(store, r.body.email) \/ UsernameInUse(store, r.body.username))
    ELSE /\ findById(store, r.userId) # {}
         /\ \E d \in store :
              /\ d._id # r.userId
              /\ \/ r.body.email # "" /\ d.email = toLowerCase(trim(r.body.email))
                 \/ r.body.username # "" /\ d.username = trim(r.body.username)

C10_DuplicateIsConflictNeverInternalError ==
    [][ (/\ last' # last
         /\ last'.req.op \in {"register", "update"}
         /\ DuplicatesAnother(db, last'.req))
        => last'.res.status = 400 /\ db' = db ]_vars

(***************************************************************************)
(* SpecUpdate: one client, one request at a time: registrations and        *)
(* profile updates that supply some fields, the record's own values, the   *)
(* values of another record, an invalid role or a file.                    *)
(***************************************************************************)
UpdateRegisterBodies ==
    { Body("ann", "ann@x.io", "password1", ""),
      Body("bob", "Bob@x.io", "password1", "instructor") }

UpdateRequests ==
    { Upload(Body("zed", "Zed@x.io", "", ""), <<>>, "http"),
      Upload(Body("ann", "ann@x.io", "", ""), <<>>, "http"),       \* the values ann has
      Upload(Body("", "Ann@x.io", "", ""), <<>>, "http"),          \* ann's email, in capitals
      Upload(Body("bob", "", "", ""), <<>>, "http"),
      Upload(Body("", "", "", "root"), <<>>, "http"),
      Upload(Body("", "", "", "instructor"), <<PngFile>>, "https") }

UpdateNext ==
    \E c \in {"c1"} :
        \/ \E body \in UpdateRegisterBodies : \E stamp \in Stamps :
              createAuth_begin(c, body, <<>>, "http", Host, stamp)
        \/ createAuth_save(c)
        \/ \E id \in RequestIds : \E u \in UpdateRequests : \E stamp \in Stamps :
              updateUserProfile_begin(c, id, u.body, u.files, u.protocol, Host, stamp)
        \/ updateUserProfile_email(c)
        \/ updateUserProfile_username(c)
        \/ updateUserProfile_save(c)

SpecUpdate == Init /\ [][UpdateNext]_vars

(***************************************************************************)
(* C11: a profile update of an existing record changes only the fields     *)
(* supplied (the picture only with a file), takes the record's own         *)
(* username or email as no conflict, checks a changed username or email    *)
(* against the other records only, leaves every other record as it was,    *)
(* and leaves the whole store as it was when it answers not-found,         *)
(* conflict or validation error.                                           *)
(***************************************************************************)
TakenByAnother(store, r) ==
    \E d \in store :
        /\ d._id # r.userId
        /\ \/ r.body.email # "" /\ d.email = toLowerCase(trim(r.body.email))
           \/ r.body.username # "" /\ d.username = trim(r.body.username)

SuppliedIsValid(r) ==
    /\ r.body.role \in {"", "admin", "instructor", "student"}
    /\ r.body.username # "" => Len(trim(r.body.username)) \in 3..20
    /\ r.body.email # "" => emailRegexTest(toLowerCase(trim(r.body.email)))
    /\ r.filename # "" => ImageUrlPattern(DerivedUrl(r))

\* the record u with exactly the supplied fields of r replaced
Updated(u, r) ==
    [u EXCEPT
        !.username = IF r.body.username # "" THEN trim(r.body.username) ELSE @,
        !.email = IF r.body.email # "" THEN toLowerCase(trim(r.body.email)) ELSE @,
        !.role = IF r.body.role # "" THEN r.body.role ELSE @,
        !.profilePicture = IF r.filename # "" THEN DerivedUrl(r) ELSE @]

C11_UpdateProfileFrame ==
    [][ (last' # last /\ last'.req.op = "update" /\ last'.req.files \in {<<>>, <<PngFile>>})
        => LET r == last'.req
               res == last'.res
           IN  /\ \A d \in db : d._id # r.userId => d \in db'
               /\ res.status \in {400, 404} => db' = db
               /\ \A u \in findById(db, r.userId) :
                     IF TakenByAnother(db, r) THEN res.status = 400 /\ db' = db
                     ELSE IF ~SuppliedIsValid(r) THEN res.status = 400 /\ db' = db
                     ELSE res.status = 200 /\ db' = (db \ {u}) \cup {Updated(u, r)} ]_vars

(***************************************************************************)
(* SpecList: one client lists while another registers and deletes; the     *)
(* requests interleave at every store call.                                *)
(***************************************************************************)
ConcurrentListQueries ==
    { NoQuery, [role |-> "", search |-> "", page |-> 1, limit |-> 1] }

ListNext ==
    \/ \E query \in ConcurrentListQueries : getAllUsers_begin("c1", query)
    \/ getAllUsers_find("c1")
    \/ getAllUsers_count("c1")
    \/ \E body \in RaceRegisterBodies : \E stamp \in Stamps :
          createAuth_begin("c2", body, <<>>, "http", Host, stamp)
    \/ createAuth_save("c2")
    \/ \E id \in IssuedIds : deleteUser("c2", id)

SpecList == Init /\ [][ListNext]_vars

(***************************************************************************)
(* C12: a listing is atomic for its caller while registrations and deletes *)
(* run: its page and its totals are those of one store state, so the page  *)
(* holds exactly the records that totalUsers leaves for it: none beyond    *)
(* totalUsers, and no fewer than min(limit, totalUsers - (page-1)*limit).  *)
(***************************************************************************)
PageSizeFor(totalUsers, query) ==
    LET skip == (queryPage(query) - 1) * queryLimit(query)
    IN  IF totalUsers <= skip THEN 0
        ELSE IF totalUsers - skip < queryLimit(query) THEN totalUsers - skip
        ELSE queryLimit(query)

C12_ListPageAndTotalsFromOneState ==
    (last.req.op = "list" /\ last.res.status = 200)
        => /\ Len(last.res.body.users)
                = PageSizeFor(last.res.body.pagination.totalUsers, last.req.query)
           /\ last.res.body.pagination.totalPages
                = ceilDiv(last.res.body.pagination.totalUsers, queryLimit(last.req.query))

====
